---- MODULE Spec2Model ----
(***************************************************************************)
(* Model of the VNC client of src/vncclient.go: the connection             *)
(* establishment sequence Connect and the message dispatch loop            *)
(* ClientConn.ListenAndHandle, together with their environment: the        *)
(* server writing on the byte stream, the application draining the         *)
(* consumer channel, and an out-of-band close of the connection.           *)
(***************************************************************************)
EXTENDS Integers, Sequences, FiniteSets, TLC

(* ------------------------------ bounds --------------------------------- *)

\* Largest number of type bytes the server writes on the stream.
MaxWire == 3

\* Largest capacity of the consumer channel (0 is an unbuffered channel).
MaxChanCap == 1

(* --------------------------- message types ----------------------------- *)

\* Type codes of the four messages NewClientConfig registers
\* (framebuffer update, color-map entries, bell, server-cut-text).
MandatedTypes == {0, 1, 2, 3}

\* A message type a caller declares in addition (a NEW server message).
ExtTypes == {4}

\* The values of the uint8 messageType the model lets the server send:
\* the mandated codes, a caller-declared code and a code nobody declares.
WireTypes == MandatedTypes \cup ExtTypes \cup {5}

\* The ClientConfig.ServerMessages slice: nil, or a list of message types.
DefaultServerMessages == <<0, 1, 2, 3>>

ServerMessagesChoices ==
    { [isNil |-> TRUE,  list |-> <<>>],
      [isNil |-> FALSE, list |-> DefaultServerMessages],
      [isNil |-> FALSE, list |-> <<4>>],
      [isNil |-> FALSE, list |-> <<0, 1, 2, 3, 4>>],
      [isNil |-> FALSE, list |-> <<4, 2, 4>>] }

\* The ClientConfig.ServerMessageCh channel: nil, or a channel of some
\* capacity.
ServerMessageChChoices ==
    { [isNil |-> TRUE, cap |-> 0] } \cup
    { [isNil |-> FALSE, cap |-> n] : n \in 0..MaxChanCap }

\* The handshake steps of Connect, in source order.
StepOrder ==
    << "protocolVersionHandshake", "securityHandshake",
       "securityResultHandshake", "clientInit", "serverInit" >>

NoMsg == [type |-> 0, id |-> 0]

(* ------------------------------ handshake ------------------------------ *)

\* Largest number of security types in the list the server sends.
MaxOffer == 2

\* A protocol version major.minor as one number.
Ver(major, minor) == major * 1000 + minor

\* c.protocolVersion before the negotiation.
NoVersion == 0

\* The protocol versions 3.3, 3.7 and 3.8.
RfbVersions == {Ver(3, 3), Ver(3, 7), Ver(3, 8)}

\* The sets of versions a client may support.
ClientVersionsChoices == { {Ver(3, 3)}, {Ver(3, 3), Ver(3, 8)}, RfbVersions }

\* The 12-byte version lines the server may send: a malformed one, or
\* "RFB 003.mmm\n".
ServerVersionLines ==
    { [ok |-> FALSE, major |-> 0, minor |-> 0] } \cup
    { [ok |-> TRUE, major |-> 3, minor |-> m] : m \in {2, 3, 5, 7, 8, 9} }

\* Security type codes: none, VNC authentication, and one the client has
\* no handler for.
SecTypes == {1, 2, 16}

\* config.Auth as NewClientConfig builds it: ClientAuthNone, ClientAuthVNC.
DefaultAuth == <<1, 2>>

AuthChoices == { DefaultAuth, <<2, 1>>, <<2>> }

\* The reason strings a server may send with a failed security result.
Reasons == {"", "bad password"}

\* The message of an authentication failure that comes without a reason.
GenericAuthFailure == "authentication failed"

VARIABLES
    cfgServerMessages,  \* config.ServerMessages
    cfgServerMessageCh, \* config.ServerMessageCh
    cpc,                \* position of Connect: the next step, or "returned"
    retConn,            \* first result of Connect: "none", "nil", "conn"
    retErr,             \* second result of Connect: "none", "nil", or the
                        \* failing step's error
    attempted,          \* the handshake steps called so far, in call order
    stepsOk,            \* the handshake steps that returned a nil error
    connClosed,         \* c.c has been closed
    closeCalls,         \* number of ClientConn.Close calls
    extClosed,          \* the connection was closed out-of-band
    lpc,                \* position of ListenAndHandle:
                        \* "idle", "read", "decode", "send", "done"
    lahRet,             \* result of ListenAndHandle: "none", "nil", "error"
    termCause,          \* why the loop ended: "none", "config", "read",
                        \* "unsupported", "decode"
    serverMessages,     \* the map[uint8]ServerMessage built by the loop
    received,           \* the type bytes read from the stream, in order
    cur,                \* the message whose decoder is running
    decodeCalls,        \* decoder invocations: [id, type, decoder]
    decoded,            \* messages decoded successfully, in order
    pending,            \* parsedMsg waiting to be sent on the channel
    ch,                 \* the buffer of the consumer channel
    consumed,           \* the messages the consumer has received
    cfgAuth,            \* config.Auth: security type codes, preferred first
    clientVersions,     \* the protocol versions the client supports
    protocolVersion,    \* c.protocolVersion, NoVersion until negotiated
    versionLines,       \* the version line read from the server, if any
    secLists,           \* the security types list read, if any
    authCalls,          \* the ClientAuth handlers whose Handshake was run
    secResults,         \* the security result status read, if any
    secReasons,         \* the failure reason read, if any
    errKind,            \* kind of the error a handshake step returned
    errMsg              \* message of that error

cfgVars == <<cfgServerMessages, cfgServerMessageCh>>
connectVars == <<cpc, retConn, retErr, attempted, stepsOk>>
closeVars == <<connClosed, closeCalls>>
loopVars == <<lpc, lahRet, termCause, serverMessages, received, cur,
              decodeCalls, decoded, pending>>
chanVars == <<ch, consumed>>
hsCfgVars == <<cfgAuth, clientVersions>>
hsWireVars == <<versionLines, secLists, authCalls, secResults, secReasons>>
hsErrVars == <<errKind, errMsg>>
hsVars == <<hsCfgVars, protocolVersion, hsWireVars, hsErrVars>>
vars == <<cfgVars, connectVars, closeVars, extClosed, loopVars, chanVars,
          hsVars>>

(* ------------------------------ helpers -------------------------------- *)

\* BuildServerMessages keyed by the position in the list instead of by
\* m.Type().
BuildServerMessagesKeyedByIndex(list, i, m) ==
    [k \in 1..Len(list) |-> k]

\* The map built from the configured list: serverMessages[m.Type()] = m,
\* a later entry of the list replacing an earlier one of the same type.
\* A decoder is identified by its index in the configured list.
RECURSIVE BuildServerMessages(_, _, _)
BuildServerMessages(list, i, m) ==
    IF i > Len(list) THEN m
    ELSE BuildServerMessages(list, i + 1,
            [t \in (DOMAIN m) \cup {list[i]} |->
                IF t = list[i] THEN i ELSE m[t]])

\* The empty map.
EmptyMap == [t \in {} |-> 0]

\* ClientConn.Close: closes the underlying connection.
Close ==
    /\ connClosed' = TRUE
    /\ closeCalls' = closeCalls + 1

\* The results a handshake step can have: every step reads from or writes
\* to the connection, so on a closed connection it can only fail.
StepOutcomes == IF connClosed THEN {FALSE} ELSE BOOLEAN

(* ------------------------------- Init ---------------------------------- *)

\* The state of a connection and of its dispatch loop before Connect runs.
InitState ==
    /\ cpc = StepOrder[1]
    /\ retConn = "none"
    /\ retErr = "none"
    /\ attempted = <<>>
    /\ stepsOk = <<>>
    /\ connClosed = FALSE
    /\ closeCalls = 0
    /\ extClosed = FALSE
    /\ lpc = "idle"
    /\ lahRet = "none"
    /\ termCause = "none"
    /\ serverMessages = EmptyMap
    /\ received = <<>>
    /\ cur = NoMsg
    /\ decodeCalls = <<>>
    /\ decoded = <<>>
    /\ pending = NoMsg
    /\ ch = <<>>
    /\ consumed = <<>>
    /\ protocolVersion = NoVersion
    /\ versionLines = <<>>
    /\ secLists = <<>>
    /\ authCalls = <<>>
    /\ secResults = <<>>
    /\ secReasons = <<>>
    /\ errKind = "none"
    /\ errMsg = ""

Init ==
    /\ cfgServerMessages \in ServerMessagesChoices
    /\ cfgServerMessageCh \in ServerMessageChChoices
    /\ cfgAuth = DefaultAuth
    /\ clientVersions = RfbVersions
    /\ InitState

(* ------------------------------ Connect -------------------------------- *)

\* StepFail without the conn.Close() call.
StepFailNoClose(step) ==
    /\ retConn' = "nil"
    /\ retErr' = step
    /\ cpc' = "returned"
    /\ UNCHANGED <<stepsOk, closeVars>>

\* StepFail handing the half-built session to the caller with the error.
StepFailReturnsConn(step) ==
    /\ Close
    /\ retConn' = "conn"
    /\ retErr' = step
    /\ cpc' = "returned"
    /\ UNCHANGED stepsOk

\* StepFail without the return: Connect goes on with the next step.
StepFailFallsThrough(step) ==
    /\ Close
    /\ retConn' = "nil"
    /\ retErr' = step
    /\ cpc' = IF step = "serverInit" THEN "returned"
              ELSE StepOrder[1 + CHOOSE i \in 1..4 : StepOrder[i] = step]
    /\ UNCHANGED stepsOk

\* A step returned an error: conn.Close(); return nil, err.
StepFail(step) ==
    /\ Close
    /\ retConn' = "nil"
    /\ retErr' = step
    /\ cpc' = "returned"
    /\ UNCHANGED stepsOk

\* A step returned nil: fall through to the next statement.
StepOk(step, next) ==
    /\ stepsOk' = Append(stepsOk, step)
    /\ cpc' = next
    /\ UNCHANGED <<retConn, retErr, closeVars>>

\* ReturnConn with the connection closed on the way out (a deferred Close).
ReturnConnCloses(step) ==
    /\ stepsOk' = Append(stepsOk, step)
    /\ cpc' = "returned"
    /\ retConn' = "conn"
    /\ retErr' = "nil"
    /\ Close

\* The last step returned nil: return conn, nil.
ReturnConn(step) ==
    /\ stepsOk' = Append(stepsOk, step)
    /\ cpc' = "returned"
    /\ retConn' = "conn"
    /\ retErr' = "nil"
    /\ UNCHANGED closeVars

ProtocolVersionHandshake ==
    /\ cpc = "protocolVersionHandshake"
    /\ attempted' = Append(attempted, "protocolVersionHandshake")
    /\ \E ok \in StepOutcomes :
          IF ok THEN StepOk("protocolVersionHandshake", "securityHandshake")
                ELSE StepFail("protocolVersionHandshake")
    /\ UNCHANGED <<hsVars, cfgVars, extClosed, loopVars, chanVars>>

\* SecurityHandshake tried again after a failure.
SecurityHandshakeRetry ==
    /\ cpc = "securityHandshake"
    /\ attempted' = Append(attempted, "securityHandshake")
    /\ \E ok \in StepOutcomes :
          IF ok THEN StepOk("securityHandshake", "securityResultHandshake")
          ELSE IF Len(attempted) < 2
                  THEN UNCHANGED <<cpc, retConn, retErr, stepsOk, closeVars>>
                  ELSE StepFail("securityHandshake")
    /\ UNCHANGED <<hsVars, cfgVars, extClosed, loopVars, chanVars>>

SecurityHandshake ==
    /\ cpc = "securityHandshake"
    /\ attempted' = Append(attempted, "securityHandshake")
    /\ \E ok \in StepOutcomes :
          IF ok THEN StepOk("securityHandshake", "securityResultHandshake")
                ELSE StepFail("securityHandshake")
    /\ UNCHANGED <<hsVars, cfgVars, extClosed, loopVars, chanVars>>

SecurityResultHandshake ==
    /\ cpc = "securityResultHandshake"
    /\ attempted' = Append(attempted, "securityResultHandshake")
    /\ \E ok \in StepOutcomes :
          IF ok THEN StepOk("securityResultHandshake", "clientInit")
                ELSE StepFail("securityResultHandshake")
    /\ UNCHANGED <<hsVars, cfgVars, extClosed, loopVars, chanVars>>

ClientInit ==
    /\ cpc = "clientInit"
    /\ attempted' = Append(attempted, "clientInit")
    /\ \E ok \in StepOutcomes :
          IF ok THEN StepOk("clientInit", "serverInit")
                ELSE StepFail("clientInit")
    /\ UNCHANGED <<hsVars, cfgVars, extClosed, loopVars, chanVars>>

ServerInit ==
    /\ cpc = "serverInit"
    /\ attempted' = Append(attempted, "serverInit")
    /\ \E ok \in StepOutcomes :
          IF ok THEN ReturnConn("serverInit")
                ELSE StepFail("serverInit")
    /\ UNCHANGED <<hsVars, cfgVars, extClosed, loopVars, chanVars>>

(* ------------------------- the handshake steps ------------------------- *)

\* The largest element of a non-empty set of numbers.
Max(S) == CHOOSE x \in S : \A y \in S : y <= x

\* The smallest element of a non-empty set of numbers.
Min(S) == CHOOSE x \in S : \A y \in S : x <= y

\* The version of a well-formed version line.
LineVersion(line) == Ver(line.major, line.minor)

\* NegotiateVersion choosing the lowest version the client supports.
NegotiateVersionLowest(supported, line) ==
    IF ~line.ok THEN NoVersion
    ELSE LET usable == { v \in supported : v <= LineVersion(line) }
         IN  IF usable = {} THEN NoVersion ELSE Min(usable)

\* The version the client answers with: the highest version it supports
\* that does not exceed the server's; NoVersion when the line is malformed
\* or there is no such version.
NegotiateVersion(supported, line) ==
    IF ~line.ok THEN NoVersion
    ELSE LET usable == { v \in supported : v <= LineVersion(line) }
         IN  IF usable = {} THEN NoVersion ELSE Max(usable)

\* No handler was found.
NoAuth == 0

\* The first element of first, from position i on, that occurs in second.
RECURSIVE FirstMatch(_, _, _)
FirstMatch(first, second, i) ==
    IF i > Len(first) THEN NoAuth
    ELSE IF \E j \in 1..Len(second) : second[j] = first[i]
            THEN first[i]
            ELSE FirstMatch(first, second, i + 1)

\* ChooseAuth walking the server's list first.
ChooseAuthServerOrder(auth, offered) == FirstMatch(offered, auth, 1)

\* The handler for the security handshake: the first configured candidate
\* whose security type the server offers.
ChooseAuth(auth, offered) == FirstMatch(auth, offered, 1)

\* All sequences over S of length at most n.
SeqsUpTo(S, n) == UNION { [1..k -> S] : k \in 0..n }

\* What the server sends to open the security handshake: from version 3.7
\* on a counted list of types, before that a single code (0 for a refusal).
OfferedLists(version) ==
    IF version >= Ver(3, 7)
        THEN SeqsUpTo(SecTypes, MaxOffer)
        ELSE { <<code>> : code \in SecTypes \cup {0} }

\* The status words of the security result: 0 is OK.
SecStatuses == {0, 1, 2}

\* ReadsReason with the threshold one version too low.
ReadsReasonFrom37(version) == version >= Ver(3, 7)

\* Whether a failed security result is followed by a reason string.
ReadsReason(version) == version >= Ver(3, 8)

\* A handshake step returned an error of the given kind; Connect closes the
\* connection and returns it.
HsFail(step, kind, msg) ==
    /\ StepFail(step)
    /\ errKind' = kind
    /\ errMsg' = msg

\* Connect calls protocolVersionHandshake: it reads the server's version
\* line and answers with the negotiated version.
protocolVersionHandshake ==
    /\ cpc = "protocolVersionHandshake"
    /\ attempted' = Append(attempted, "protocolVersionHandshake")
    /\ \/ /\ HsFail("protocolVersionHandshake", "StreamError", "read")
          /\ UNCHANGED <<versionLines, protocolVersion>>
       \/ /\ ~connClosed
          /\ \E line \in ServerVersionLines :
                /\ versionLines' = <<line>>
                /\ LET v == NegotiateVersion(clientVersions, line)
                   IN  IF v = NoVersion
                          THEN /\ HsFail("protocolVersionHandshake",
                                         "ProtocolError", "version")
                               /\ UNCHANGED protocolVersion
                          ELSE /\ protocolVersion' = v
                               /\ StepOk("protocolVersionHandshake",
                                         "securityHandshake")
                               /\ UNCHANGED hsErrVars
    /\ UNCHANGED <<hsCfgVars, secLists, authCalls, secResults, secReasons,
                   cfgVars, extClosed, loopVars, chanVars>>

\* Connect calls securityHandshake: it reads the types the server offers,
\* chooses a handler and runs the handler's exchange.
securityHandshake ==
    /\ cpc = "securityHandshake"
    /\ attempted' = Append(attempted, "securityHandshake")
    /\ \/ /\ HsFail("securityHandshake", "StreamError", "read")
          /\ UNCHANGED <<secLists, authCalls>>
       \/ /\ ~connClosed
          /\ \E offered \in OfferedLists(protocolVersion) :
                /\ secLists' = <<offered>>
                /\ LET a == ChooseAuth(cfgAuth, offered)
                   IN  IF a = NoAuth
                          THEN /\ HsFail("securityHandshake", "SecurityError",
                                         "no supported security types")
                               /\ UNCHANGED authCalls
                          ELSE /\ authCalls' = Append(authCalls, a)
                               /\ \E ok \in BOOLEAN :
                                     IF ok
                                        THEN /\ StepOk("securityHandshake",
                                                  "securityResultHandshake")
                                             /\ UNCHANGED hsErrVars
                                        ELSE HsFail("securityHandshake",
                                                  "StreamError", "auth")
    /\ UNCHANGED <<hsCfgVars, protocolVersion, versionLines, secResults,
                   secReasons, cfgVars, extClosed, loopVars, chanVars>>

\* Connect calls securityResultHandshake: it reads the status and, after a
\* failure on a version that sends one, the reason.
securityResultHandshake ==
    /\ cpc = "securityResultHandshake"
    /\ attempted' = Append(attempted, "securityResultHandshake")
    /\ \/ /\ HsFail("securityResultHandshake", "StreamError", "read")
          /\ UNCHANGED <<secResults, secReasons>>
       \/ /\ ~connClosed
          /\ \E status \in SecStatuses :
                /\ secResults' = <<status>>
                /\ IF status = 0
                      THEN /\ StepOk("securityResultHandshake", "clientInit")
                           /\ UNCHANGED <<secReasons, hsErrVars>>
                      ELSE IF ReadsReason(protocolVersion)
                              THEN \/ \E r \in Reasons :
                                        /\ secReasons' = <<r>>
                                        /\ HsFail("securityResultHandshake",
                                                  "AuthenticationError", r)
                                   \/ /\ HsFail("securityResultHandshake",
                                                "StreamError", "read")
                                      /\ UNCHANGED secReasons
                              ELSE /\ HsFail("securityResultHandshake",
                                             "AuthenticationError",
                                             GenericAuthFailure)
                                   /\ UNCHANGED secReasons
    /\ UNCHANGED <<hsCfgVars, protocolVersion, versionLines, secLists,
                   authCalls, cfgVars, extClosed, loopVars, chanVars>>

\* Connect calls clientInit: it writes the shared flag.
clientInit ==
    /\ cpc = "clientInit"
    /\ attempted' = Append(attempted, "clientInit")
    /\ \E ok \in StepOutcomes :
          IF ok THEN /\ StepOk("clientInit", "serverInit")
                     /\ UNCHANGED hsErrVars
                ELSE HsFail("clientInit", "StreamError", "write")
    /\ UNCHANGED <<hsCfgVars, protocolVersion, hsWireVars, cfgVars,
                   extClosed, loopVars, chanVars>>

\* Connect calls serverInit: it reads the framebuffer size, the pixel format
\* and the desktop name, and Connect returns the session.
serverInit ==
    /\ cpc = "serverInit"
    /\ attempted' = Append(attempted, "serverInit")
    /\ \E ok \in StepOutcomes :
          IF ok THEN /\ ReturnConn("serverInit")
                     /\ UNCHANGED hsErrVars
                ELSE HsFail("serverInit", "StreamError", "read")
    /\ UNCHANGED <<hsCfgVars, protocolVersion, hsWireVars, cfgVars,
                   extClosed, loopVars, chanVars>>

(* -------------------------- ListenAndHandle ---------------------------- *)

\* Leaving ListenAndHandle: the deferred c.Close() runs and the result is
\* returned.
Return(cause, result) ==
    /\ Close
    /\ lpc' = "done"
    /\ lahRet' = result
    /\ termCause' = cause

\* ListenAndHandleStart without the test for a nil ServerMessages.
ListenAndHandleStartNoNilCheck ==
    /\ cpc = "returned"
    /\ retConn = "conn"
    /\ lpc = "idle"
    /\ serverMessages' =
          BuildServerMessages(cfgServerMessages.list, 1, EmptyMap)
    /\ lpc' = "read"
    /\ UNCHANGED <<closeVars, lahRet, termCause>>
    /\ UNCHANGED <<hsVars, cfgVars, connectVars, extClosed, received, cur,
                   decodeCalls, decoded, pending, chanVars>>

\* The application calls ListenAndHandle on the session Connect returned.
\* A nil ServerMessages is an error; otherwise the lookup table is built.
ListenAndHandleStart ==
    /\ cpc = "returned"
    /\ retConn = "conn"
    /\ lpc = "idle"
    /\ IF cfgServerMessages.isNil
          THEN /\ Return("config", "error")
               /\ UNCHANGED serverMessages
          ELSE /\ serverMessages' =
                      BuildServerMessages(cfgServerMessages.list, 1, EmptyMap)
               /\ lpc' = "read"
               /\ UNCHANGED <<closeVars, lahRet, termCause>>
    /\ UNCHANGED <<hsVars, cfgVars, connectVars, extClosed, received, cur,
                   decodeCalls, decoded, pending, chanVars>>

\* ReadType skipping an unregistered byte instead of leaving the loop.
ReadTypeSkipsUnsupported ==
    /\ lpc = "read"
    /\ ~connClosed
    /\ Len(received) < MaxWire
    /\ \E t \in WireTypes :
          /\ received' = Append(received, t)
          /\ IF t \in DOMAIN serverMessages
                THEN /\ cur' = [type |-> t, id |-> Len(received) + 1]
                     /\ lpc' = "decode"
                ELSE UNCHANGED <<cur, lpc>>
          /\ UNCHANGED <<closeVars, lahRet, termCause>>
    /\ UNCHANGED <<hsVars, cfgVars, connectVars, extClosed, serverMessages,
                   decodeCalls, decoded, pending, chanVars>>

\* binary.Read returns a type byte; the byte is looked up in the table.
\* An unregistered byte leaves the loop.
ReadType ==
    /\ lpc = "read"
    /\ ~connClosed
    /\ Len(received) < MaxWire
    /\ \E t \in WireTypes :
          /\ received' = Append(received, t)
          /\ IF t \in DOMAIN serverMessages
                THEN /\ cur' = [type |-> t, id |-> Len(received) + 1]
                     /\ lpc' = "decode"
                     /\ UNCHANGED <<closeVars, lahRet, termCause>>
                ELSE /\ Return("unsupported", "nil")
                     /\ UNCHANGED cur
    /\ UNCHANGED <<hsVars, cfgVars, connectVars, extClosed, serverMessages,
                   decodeCalls, decoded, pending, chanVars>>

\* ReadFail leaving the loop without the deferred c.Close().
ReadFailNoClose ==
    /\ lpc = "read"
    /\ lpc' = "done"
    /\ lahRet' = "nil"
    /\ termCause' = "read"
    /\ UNCHANGED <<hsVars, cfgVars, connectVars, closeVars, extClosed,
                   serverMessages, received, cur, decodeCalls, decoded,
                   pending, chanVars>>

\* ReadFail that never happens on a closed connection: the read hangs.
ReadFailOnlyWhenOpen ==
    /\ lpc = "read"
    /\ ~connClosed
    /\ Return("read", "nil")
    /\ UNCHANGED <<hsVars, cfgVars, connectVars, extClosed, serverMessages,
                   received, cur, decodeCalls, decoded, pending, chanVars>>

\* binary.Read returns an error (I/O error, end of stream, or the
\* connection was closed): the loop is left.
ReadFail ==
    /\ lpc = "read"
    /\ Return("read", "nil")
    /\ UNCHANGED <<hsVars, cfgVars, connectVars, extClosed, serverMessages,
                   received, cur, decodeCalls, decoded, pending, chanVars>>

\* DecodeOk with the channel test inverted: the message is never sent.
DecodeOkSkipsSend ==
    /\ decoded' = Append(decoded, cur)
    /\ lpc' = "read"
    /\ UNCHANGED <<pending, closeVars, lahRet, termCause>>

\* DecodeOk without the test for a nil channel: the send is always tried.
DecodeOkAlwaysSends ==
    /\ decoded' = Append(decoded, cur)
    /\ lpc' = "send"
    /\ pending' = cur
    /\ UNCHANGED <<closeVars, lahRet, termCause>>

\* DecodeOk keeping the message aside and reading on before it is sent.
DecodeOkReadsAhead ==
    /\ decoded' = Append(decoded, cur)
    /\ lpc' = "read"
    /\ pending' = IF cfgServerMessageCh.isNil THEN pending ELSE cur
    /\ UNCHANGED <<closeVars, lahRet, termCause>>

\* msg.Read returned a message: without a channel it is dropped and the
\* loop continues; otherwise it is about to be sent on the channel.
DecodeOk ==
    /\ decoded' = Append(decoded, cur)
    /\ IF cfgServerMessageCh.isNil
          THEN /\ lpc' = "read"
               /\ UNCHANGED pending
          ELSE /\ lpc' = "send"
               /\ pending' = cur
    /\ UNCHANGED <<closeVars, lahRet, termCause>>

\* DecodeFail continuing with the next message instead of leaving the loop.
DecodeFailContinues ==
    /\ lpc' = "read"
    /\ UNCHANGED <<decoded, pending, closeVars, lahRet, termCause>>

\* DecodeFail reporting the decoder's error to the caller.
DecodeFailReturnsError ==
    /\ Return("decode", "error")
    /\ UNCHANGED <<decoded, pending>>

\* msg.Read returned an error: the loop is left.
DecodeFail ==
    /\ Return("decode", "nil")
    /\ UNCHANGED <<decoded, pending>>

\* The decoder registered for the type runs on the stream. The decoders are
\* pluggable: one may fail, and one with an empty body (bell) may succeed
\* whatever the state of the connection.
Decode ==
    /\ lpc = "decode"
    /\ decodeCalls' = Append(decodeCalls,
          [id |-> cur.id, type |-> cur.type,
           decoder |-> serverMessages[cur.type]])
    /\ \E ok \in BOOLEAN : IF ok THEN DecodeOk ELSE DecodeFail
    /\ cur' = NoMsg
    /\ UNCHANGED <<hsVars, cfgVars, connectVars, extClosed, serverMessages,
                   received, chanVars>>

\* SendBuffered as a non-blocking send: a full channel drops the message.
SendBufferedNonBlocking ==
    /\ lpc = "send"
    /\ ~cfgServerMessageCh.isNil
    /\ cfgServerMessageCh.cap > 0
    /\ ch' = IF Len(ch) < cfgServerMessageCh.cap
                THEN Append(ch, pending) ELSE ch
    /\ pending' = NoMsg
    /\ lpc' = "read"
    /\ UNCHANGED <<hsVars, cfgVars, connectVars, closeVars, extClosed, lahRet,
                   termCause, serverMessages, received, cur, decodeCalls,
                   decoded, consumed>>

\* c.config.ServerMessageCh <- parsedMsg on a buffered channel with room.
SendBuffered ==
    /\ lpc = "send"
    /\ ~cfgServerMessageCh.isNil
    /\ cfgServerMessageCh.cap > 0
    /\ Len(ch) < cfgServerMessageCh.cap
    /\ ch' = Append(ch, pending)
    /\ pending' = NoMsg
    /\ lpc' = "read"
    /\ UNCHANGED <<hsVars, cfgVars, connectVars, closeVars, extClosed, lahRet,
                   termCause, serverMessages, received, cur, decodeCalls,
                   decoded, consumed>>

\* c.config.ServerMessageCh <- parsedMsg on an unbuffered channel: the send
\* completes when the consumer receives.
Handoff ==
    /\ lpc = "send"
    /\ ~cfgServerMessageCh.isNil
    /\ cfgServerMessageCh.cap = 0
    /\ consumed' = Append(consumed, pending)
    /\ pending' = NoMsg
    /\ lpc' = "read"
    /\ UNCHANGED <<hsVars, cfgVars, connectVars, closeVars, extClosed, lahRet,
                   termCause, serverMessages, received, cur, decodeCalls,
                   decoded, ch>>

(* ----------------------------- environment ----------------------------- *)

\* The application receives from the channel.
ConsumerRecv ==
    /\ ch # <<>>
    /\ consumed' = Append(consumed, Head(ch))
    /\ ch' = Tail(ch)
    /\ UNCHANGED <<hsVars, cfgVars, connectVars, closeVars, extClosed, loopVars>>

\* Somebody closes the underlying net.Conn out-of-band.
ExternalClose ==
    /\ ~extClosed
    /\ extClosed' = TRUE
    /\ connClosed' = TRUE
    /\ UNCHANGED <<hsVars, cfgVars, connectVars, closeCalls, loopVars, chanVars>>

(* --------------------------- specifications ---------------------------- *)

Next ==
    \/ ProtocolVersionHandshake
    \/ SecurityHandshake
    \/ SecurityResultHandshake
    \/ ClientInit
    \/ ServerInit
    \/ ListenAndHandleStart
    \/ ReadType
    \/ ReadFail
    \/ Decode
    \/ SendBuffered
    \/ Handoff
    \/ ConsumerRecv
    \/ ExternalClose

Spec == Init /\ [][Next]_vars

\* The loop's own progress: a read or a decoder on a closed connection
\* returns, and a send on a channel with room completes. Nothing is
\* assumed of the server or of the consumer.
FairSpec ==
    /\ Spec
    /\ WF_vars(connClosed /\ ReadFail)
    /\ WF_vars(connClosed /\ Decode)
    /\ WF_vars(SendBuffered)

\* Connect alone, with the handshake steps reading what the server sends,
\* for every configured list of handlers and every set of supported
\* versions.
HandshakeInit ==
    /\ cfgServerMessages = [isNil |-> FALSE, list |-> DefaultServerMessages]
    /\ cfgServerMessageCh = [isNil |-> TRUE, cap |-> 0]
    /\ cfgAuth \in AuthChoices
    /\ clientVersions \in ClientVersionsChoices
    /\ InitState

HandshakeNext ==
    \/ protocolVersionHandshake
    \/ securityHandshake
    \/ securityResultHandshake
    \/ clientInit
    \/ serverInit
    \/ ExternalClose

HandshakeSpec == HandshakeInit /\ [][HandshakeNext]_vars

(* ------------------------------- claims -------------------------------- *)

IsPrefix(a, b) ==
    /\ Len(a) <= Len(b)
    /\ \A i \in 1..Len(a) : a[i] = b[i]

\* What the loop has handed to the consumer channel, in order.
Delivered == consumed \o ch

Ids(q) == { q[i].id : i \in 1..Len(q) }

ConnectFailed == cpc = "returned" /\ retErr \notin {"none", "nil"}

\* C1: whenever Connect has returned an error, Close has been called and the
\* connection is closed.
C1_ConnectErrorClosesConn ==
    ConnectFailed => (connClosed /\ closeCalls >= 1)

\* Connect failed in its last step on a connection nobody else closed.
C1_Witness ==
    /\ ConnectFailed
    /\ retErr = "serverInit"
    /\ ~extClosed
    /\ connClosed

\* C2: Connect returns a session exactly when all five steps succeeded;
\* when a step failed it returns nil and that step's error; before it
\* returns, nothing has been handed to the caller.
C2_SessionIffAllStepsOk ==
    /\ retConn = "conn" <=> (cpc = "returned" /\ stepsOk = StepOrder)
    /\ retConn = "conn" => retErr = "nil"
    /\ (cpc = "returned" /\ stepsOk # StepOrder) =>
          /\ retConn = "nil"
          /\ retErr = attempted[Len(attempted)]
          /\ \A i \in 1..Len(stepsOk) : stepsOk[i] # retErr
    /\ cpc # "returned" => (retConn = "none" /\ retErr = "none")

\* Connect returned a session after five successful steps.
C2_Witness ==
    /\ retConn = "conn"
    /\ Len(stepsOk) = 5

\* C3: the steps are called in the fixed order, each at most once, a step
\* only after every earlier one succeeded, and none after a failure.
C3_StepsInOrderNoRetry ==
    /\ Len(attempted) <= Len(StepOrder)
    /\ \A i \in 1..Len(attempted) : attempted[i] = StepOrder[i]
    /\ IsPrefix(stepsOk, attempted)
    /\ Len(attempted) - Len(stepsOk) \in {0, 1}
    /\ Len(attempted) > Len(stepsOk) =>
          /\ cpc = "returned"
          /\ retErr = attempted[Len(attempted)]
    /\ (cpc # "returned") => cpc = StepOrder[Len(attempted) + 1]

\* The third step failed after two successes and Connect has returned.
C3_Witness ==
    /\ attempted = SubSeq(StepOrder, 1, 3)
    /\ stepsOk = SubSeq(StepOrder, 1, 2)
    /\ cpc = "returned"

\* C4: with a consumer channel, what has been delivered is always a prefix
\* of what has been decoded, which follows the order of the stream; the only
\* decoded message not yet delivered is the one being sent.
C4_DeliveredInWireOrder ==
    ~cfgServerMessageCh.isNil =>
        /\ IsPrefix(Delivered, decoded)
        /\ lpc = "send" => decoded = Delivered \o <<pending>>
        /\ lpc # "send" => Delivered = decoded
        /\ \A i \in 1..Len(decoded) :
              /\ decoded[i].id \in 1..Len(received)
              /\ decoded[i].type = received[decoded[i].id]
              /\ \A j \in 1..Len(decoded) :
                    i < j => decoded[i].id < decoded[j].id

\* Two consecutive messages of registered types have reached the consumer.
C4_Witness ==
    /\ Len(consumed) = 2
    /\ consumed[1].id = 1
    /\ consumed[2].id = 2
    /\ received[1] # received[2]

\* The i-th type byte read matches no registered type.
Unregistered(i) ==
    /\ i \in 1..Len(received)
    /\ lpc # "idle"
    /\ received[i] \notin DOMAIN serverMessages

\* C5: an unregistered type byte ends the loop and closes the connection;
\* no decoder runs for it and nothing is delivered from it on; when it is
\* the second message, exactly the first message has been delivered.
C5_UnregisteredTypeIsFatal ==
    \A i \in 1..Len(received) :
        Unregistered(i) =>
            /\ i = Len(received)
            /\ lpc = "done"
            /\ termCause = "unsupported"
            /\ connClosed
            /\ closeCalls >= 1
            /\ \A k \in 1..Len(decodeCalls) : decodeCalls[k].id < i
            /\ \A id \in Ids(decoded) \cup Ids(Delivered) : id < i
            /\ (i = 2 /\ ~cfgServerMessageCh.isNil) =>
                  Delivered = << [type |-> received[1], id |-> 1] >>

\* The second message has an unregistered type and the consumer took the
\* first one.
C5_Witness ==
    /\ Unregistered(2)
    /\ Len(consumed) = 1
    /\ ~extClosed

\* The decoder of message k was called and returned an error.
DecodeFailedFor(k) ==
    /\ \E c \in 1..Len(decodeCalls) : decodeCalls[c].id = k
    /\ k \notin Ids(decoded)

\* C6: after a decoder error nothing is delivered for that message, the
\* loop has ended with the connection closed, and nothing more is read.
C6_DecodeErrorIsFatal ==
    \A k \in 1..Len(received) :
        DecodeFailedFor(k) =>
            /\ lpc = "done"
            /\ termCause = "decode"
            /\ connClosed
            /\ closeCalls >= 1
            /\ k \notin Ids(Delivered)
            /\ pending = NoMsg
            /\ Len(received) = k

\* The decoder of the second message failed after the first was delivered.
C6_Witness ==
    /\ DecodeFailedFor(2)
    /\ Len(Delivered) = 1
    /\ ~extClosed

\* C7: after a failed read of the type byte the loop has ended, the
\* connection is closed, and with a consumer channel every decoded message
\* has been delivered.
C7_ReadFailureEndsLoop ==
    termCause = "read" =>
        /\ lpc = "done"
        /\ lahRet = "nil"
        /\ connClosed
        /\ closeCalls >= 1
        /\ ~cfgServerMessageCh.isNil => Delivered = decoded

\* The read failed on an open connection after two messages were delivered.
C7_Witness ==
    /\ termCause = "read"
    /\ ~extClosed
    /\ Len(Delivered) = 2
    /\ Len(decoded) = 2

\* The loop waits on a send the channel cannot take.
Blocked ==
    /\ lpc = "send"
    /\ \/ cfgServerMessageCh.cap = 0
       \/ Len(ch) >= cfgServerMessageCh.cap

\* The state of the loop itself.
LoopState == <<loopVars, closeCalls>>

\* C8 as stated: a blocked loop whose connection is closed out-of-band
\* ends.
C8_BlockedLoopEndsOnClose ==
    [] ((Blocked /\ extClosed) => <> (lpc = "done"))

\* C8 as amended: while the loop is blocked, it does nothing (it reads
\* nothing, keeps the pending message, does not end) until the consumer
\* receives, closing the connection included; the consumer's receive
\* unblocks it, and the pending message is then the next one delivered.
C8_BlockedUntilDrained ==
    [][ Blocked =>
          \/ /\ UNCHANGED <<LoopState, chanVars>>
          \/ /\ cfgServerMessageCh.cap > 0
             /\ consumed' = Append(consumed, Head(ch))
             /\ ch' = Tail(ch)
             /\ UNCHANGED LoopState
             /\ ~Blocked'
          \/ /\ cfgServerMessageCh.cap = 0
             /\ consumed' = Append(consumed, pending)
             /\ lpc' = "read"
             /\ UNCHANGED <<received, decoded, decodeCalls, closeCalls,
                            termCause, lahRet, ch>>
      ]_vars

\* The loop is blocked on its second message and the connection has been
\* closed out-of-band.
C8_Witness ==
    /\ Blocked
    /\ extClosed
    /\ pending.id = 2

Running == lpc \in {"read", "decode", "send"}

\* C9 as stated: once the connection is closed out-of-band, a running loop
\* eventually ends.
C9_CloseEndsLoop ==
    [] ((extClosed /\ Running) => <> (lpc = "done"))

\* C9 as amended: once the connection is closed out-of-band, a running loop
\* eventually ends, provided the consumer keeps receiving from the channel.
C9_CloseEndsLoopIfDrained ==
    (WF_vars(Handoff) /\ WF_vars(ConsumerRecv)) =>
        [] ((extClosed /\ Running) => <> (lpc = "done"))

\* The loop has ended on a failed read after an out-of-band close, having
\* delivered a message.
C9_Witness ==
    /\ extClosed
    /\ lpc = "done"
    /\ termCause = "read"
    /\ Len(Delivered) >= 1
    /\ closeCalls = 1

\* The decoder of the i-th message has been selected.
Dispatched(i) ==
    \/ cur.id = i
    \/ \E c \in 1..Len(decodeCalls) : decodeCalls[c].id = i

\* C10: a type byte of one of the four mandated kinds is dispatched to a
\* decoder whatever list the configuration declares.
C10_MandatedTypesDispatched ==
    \A i \in 1..Len(received) :
        received[i] \in MandatedTypes => Dispatched(i)

\* C11: without a consumer channel a decoded message is dropped and the loop
\* goes back to reading: it never waits on a send, delivers nothing, and
\* ends only on a read failure, an unregistered type or a decoder error.
C11_NoChannelDiscards ==
    /\ [] (cfgServerMessageCh.isNil =>
             /\ lpc # "send"
             /\ pending = NoMsg
             /\ Delivered = <<>>
             /\ (lpc = "done" /\ ~cfgServerMessages.isNil) =>
                    termCause \in {"read", "unsupported", "decode"})
    /\ [][ (cfgServerMessageCh.isNil /\ decoded' # decoded) =>
              (lpc' = "read" /\ UNCHANGED <<closeVars, received>>) ]_vars

\* Without a channel two messages were decoded and the loop reads on.
C11_Witness ==
    /\ cfgServerMessageCh.isNil
    /\ Len(decoded) = 2
    /\ lpc = "read"

\* C16: with a nil ServerMessages, ListenAndHandle returns an error having
\* read nothing and delivered nothing, and the connection is closed.
C16_NilServerMessagesIsError ==
    /\ (cfgServerMessages.isNil /\ lpc # "idle") =>
          /\ lpc = "done"
          /\ termCause = "config"
    /\ termCause = "config" =>
          /\ cfgServerMessages.isNil
          /\ lahRet = "error"
          /\ received = <<>>
          /\ decodeCalls = <<>>
          /\ Delivered = <<>>
          /\ connClosed
          /\ closeCalls = 1

\* ListenAndHandle returned the configuration error on a connection nobody
\* else closed.
C16_Witness ==
    /\ termCause = "config"
    /\ lahRet = "error"
    /\ ~extClosed

\* C17: whatever ended the loop (read failure, unregistered type, decoder
\* error), ListenAndHandle returns nil, and ending it puts nothing on the
\* consumer channel: the consumer only ever sees decoded messages.
C17_TerminationCauseNotSurfaced ==
    /\ [] ((lpc = "done" /\ ~cfgServerMessages.isNil) =>
             /\ termCause \in {"read", "unsupported", "decode"}
             /\ lahRet = "nil")
    /\ [] (IsPrefix(Delivered, decoded))
    /\ [][ (lpc # "done" /\ lpc' = "done") => UNCHANGED chanVars ]_vars

\* The loop ended on an unregistered type after the consumer took two
\* messages.
C17_Witness ==
    /\ termCause = "unsupported"
    /\ lahRet = "nil"
    /\ Len(consumed) = 2

\* C18: while a decoded message waits to be sent the loop reads nothing and
\* runs no decoder, so it never holds more than that one message.
C18_NoInternalBuffering ==
    /\ [] (/\ pending # NoMsg <=> lpc = "send"
           /\ lpc = "send" => cur = NoMsg
           /\ ~cfgServerMessageCh.isNil =>
                 Len(decoded) - Len(Delivered) = (IF lpc = "send" THEN 1 ELSE 0))
    /\ [][ pending # NoMsg =>
              UNCHANGED <<received, decodeCalls, decoded>> ]_vars

\* The second message waits in the loop while the first sits in the channel.
C18_Witness ==
    /\ pending.id = 2
    /\ Len(ch) = 1
    /\ Len(received) = 2

\* The decoder registered for type t: the last entry of that type in the
\* configured list.
RegisteredDecoder(t) ==
    CHOOSE i \in 1..Len(cfgServerMessages.list) :
        /\ cfgServerMessages.list[i] = t
        /\ \A j \in (i + 1)..Len(cfgServerMessages.list) :
              cfgServerMessages.list[j] # t

\* C19: the k-th decoder call is for the k-th type byte read and runs the
\* decoder registered for that byte; between two decoder calls the loop
\* reads exactly one type byte.
C19_OneByteOneDecoder ==
    /\ Len(received) - Len(decodeCalls) \in {0, 1}
    /\ \A k \in 1..Len(decodeCalls) :
          /\ decodeCalls[k].id = k
          /\ decodeCalls[k].type = received[k]
          /\ \E i \in 1..Len(cfgServerMessages.list) :
                cfgServerMessages.list[i] = received[k]
          /\ decodeCalls[k].decoder = RegisteredDecoder(received[k])
    /\ lpc = "decode" =>
          /\ cur.id = Len(received)
          /\ cur.type = received[Len(received)]
          /\ Len(decodeCalls) = Len(received) - 1

\* Two decoders have run, for two different type bytes.
C19_Witness ==
    /\ Len(decodeCalls) = 2
    /\ decodeCalls[1].type # decodeCalls[2].type
    /\ decodeCalls[2].decoder > 1

\* C20: the connection is closed exactly when Connect failed, ListenAndHandle
\* has returned, or it was closed out-of-band; Close has been called once
\* for a failed Connect, once for a returned ListenAndHandle, and never
\* otherwise.
C20_ClosedIffFailedOrReturned ==
    /\ connClosed <=> (ConnectFailed \/ lpc = "done" \/ extClosed)
    /\ closeCalls = (IF ConnectFailed THEN 1 ELSE 0)
                    + (IF lpc = "done" THEN 1 ELSE 0)

\* Connect succeeded and the connection is open while the loop runs.
C20_Witness ==
    /\ retConn = "conn"
    /\ lpc = "send"
    /\ ~connClosed

Range(q) == { q[i] : i \in 1..Len(q) }

\* C12: when the server offers a type the client has a handler for, exactly
\* one handler runs, the first of the configured list whose type is among
\* those offered, whatever the order of the server's list.
C12_FirstConfiguredCandidate ==
    /\ Len(authCalls) <= 1
    /\ \A k \in 1..Len(secLists) :
          LET matching == { i \in 1..Len(cfgAuth) :
                               cfgAuth[i] \in Range(secLists[k]) }
          IN  matching # {} =>
                 /\ Len(authCalls) = 1
                 /\ authCalls[1] = cfgAuth[Min(matching)]

\* The server listed the client's second choice first; the client's first
\* choice ran.
C12_Witness ==
    /\ cfgAuth = <<1, 2>>
    /\ secLists = << <<2, 1>> >>
    /\ authCalls = <<1>>

\* C13: when the server offers no type the client has a handler for, Connect
\* fails in the security handshake with the security error, the connection
\* is closed, no handler runs and no later step is called.
C13_NoSupportedSecurityType ==
    \A k \in 1..Len(secLists) :
        Range(cfgAuth) \cap Range(secLists[k]) = {} =>
            /\ errKind = "SecurityError"
            /\ errMsg = "no supported security types"
            /\ cpc = "returned"
            /\ retConn = "nil"
            /\ retErr = "securityHandshake"
            /\ connClosed
            /\ closeCalls = 1
            /\ authCalls = <<>>
            /\ attempted = SubSeq(StepOrder, 1, 2)

\* The server offered only a type the client has no handler for.
C13_Witness ==
    /\ secLists = << <<16>> >>
    /\ errKind = "SecurityError"
    /\ ~extClosed

\* The lower of the client's highest version and the server's version.
LowerOfTwo(line) ==
    IF Max(clientVersions) <= LineVersion(line)
        THEN Max(clientVersions) ELSE LineVersion(line)

VersionStepFailed ==
    /\ errKind = "ProtocolError"
    /\ cpc = "returned"
    /\ retErr = "protocolVersionHandshake"
    /\ connClosed
    /\ protocolVersion = NoVersion

\* C14 as stated: for a well-formed server version the negotiated version
\* is the lower of the two, or else the negotiation fails with a protocol
\* error and the connection is closed.
C14_LowerOfTwoOrFail ==
    \A k \in 1..Len(versionLines) :
        versionLines[k].ok =>
            \/ protocolVersion = LowerOfTwo(versionLines[k])
            \/ VersionStepFailed

\* C14 as amended: the negotiated version is the highest version the client
\* supports that does not exceed the server's, which is the lower of the two
\* whenever the client supports that one; with a malformed line or no such
\* version the negotiation fails with a protocol error and the connection
\* is closed.
C14_HighestSupportedNotAbove ==
    \A k \in 1..Len(versionLines) :
        LET line == versionLines[k]
            usable == { v \in clientVersions : v <= LineVersion(line) }
        IN  IF line.ok /\ usable # {}
               THEN /\ protocolVersion \in usable
                    /\ \A v \in usable : v <= protocolVersion
                    /\ LowerOfTwo(line) \in clientVersions =>
                          protocolVersion = LowerOfTwo(line)
                    /\ stepsOk # <<>>
                    /\ errKind # "ProtocolError"
               ELSE /\ VersionStepFailed
                    /\ attempted = SubSeq(StepOrder, 1, 1)

\* A server at 3.7 and a client that supports 3.3 and 3.8 agreed on 3.3.
C14_Witness ==
    /\ clientVersions = {Ver(3, 3), Ver(3, 8)}
    /\ versionLines = << [ok |-> TRUE, major |-> 3, minor |-> 7] >>
    /\ protocolVersion = Ver(3, 3)

SecurityResultFailed ==
    /\ cpc = "returned"
    /\ retConn = "nil"
    /\ retErr = "securityResultHandshake"
    /\ connClosed
    /\ attempted = SubSeq(StepOrder, 1, 3)

\* C15: a nonzero status fails Connect in the security result step with an
\* authentication error; from 3.8 on its message is the reason read from
\* the stream, below 3.8 no reason is read and the message is a non-empty
\* generic one; a zero status lets Connect go on to clientInit.
C15_SecurityResult ==
    /\ errKind = "AuthenticationError" =>
          (secResults # <<>> /\ secResults[1] # 0)
    /\ \A k \in 1..Len(secResults) :
          IF secResults[k] = 0
             THEN /\ errKind # "AuthenticationError"
                  /\ secReasons = <<>>
                  /\ Len(stepsOk) >= 3
                  /\ cpc = "clientInit" \/ Len(attempted) >= 4
             ELSE /\ SecurityResultFailed
                  /\ IF protocolVersion >= Ver(3, 8)
                        THEN IF secReasons # <<>>
                                THEN /\ errKind = "AuthenticationError"
                                     /\ errMsg = secReasons[1]
                                ELSE errKind = "StreamError"
                        ELSE /\ secReasons = <<>>
                             /\ errKind = "AuthenticationError"
                             /\ errMsg # ""

\* At 3.8 the server's reason came back as the error's message.
C15_Witness ==
    /\ protocolVersion = Ver(3, 8)
    /\ secResults = <<1>>
    /\ secReasons = <<"bad password">>
    /\ errMsg = "bad password"

====
